---- MODULE Spec2Model ----
(***************************************************************************)
(* A model of tools/ingest_issue.py: the ingestion of one issue-form       *)
(* submission into the vocabulary store (data/words.json, data/words.csv). *)
(*                                                                         *)
(* A Python str is modelled as a sequence of one-character strings, so     *)
(* that strip(), lower(), split(), join() and the regular expression of    *)
(* parse_field are computed character by character.  An entry is a record  *)
(* that carries every key: a key missing from a stored entry is the value  *)
(* its .get() default gives.  Indices count from 1; find_index returns -1  *)
(* when no entry matches, as in the source.                                *)
(*                                                                         *)
(* json and csv are the two files; now is the clock; last and prev are the *)
(* reports of the last run of main() and of the run before it; arg and ret *)
(* are the argument and the result of parse_field or split_csv_like when   *)
(* one of them is called on its own.                                       *)
(***************************************************************************)
EXTENDS Integers, Sequences, FiniteSets, TLC

VARIABLES json, csv, now, last, prev, arg, ret

vars == <<json, csv, now, last, prev, arg, ret>>

----------------------------------------------------------------------------
(* Bounds of the model.                                                    *)

\* Runs of main() in one behaviour.
MaxRuns == 2
\* Lines of a submission body given to parse_field on its own.
MaxLines == 3
\* Characters of a string given to split_csv_like on its own.
MaxLen == 4
\* Entries of a hand-edited store main() may find at its first run.
MaxLegacy == 2

----------------------------------------------------------------------------
(* Python str operations.                                                  *)

\* The characters of the model in code point order.
AsciiOrder ==
  <<"\t", "\n", "\r", " ", "#", "(", ")", ",", "-", ".", "/",
    "0", "1", "2", "3", "4", "5", "6", "7", "8", "9", ":",
    "A", "B", "C", "D", "E", "F", "G", "H", "I", "J", "K", "L", "M",
    "N", "O", "P", "Q", "R", "S", "T", "U", "V", "W", "X", "Y", "Z", "_",
    "a", "b", "c", "d", "e", "f", "g", "h", "i", "j", "k", "l", "m",
    "n", "o", "p", "q", "r", "s", "t", "u", "v", "w", "x", "y", "z", "|">>

Upper ==
  <<"A", "B", "C", "D", "E", "F", "G", "H", "I", "J", "K", "L", "M",
    "N", "O", "P", "Q", "R", "S", "T", "U", "V", "W", "X", "Y", "Z">>

LowerOf ==
  <<"a", "b", "c", "d", "e", "f", "g", "h", "i", "j", "k", "l", "m",
    "n", "o", "p", "q", "r", "s", "t", "u", "v", "w", "x", "y", "z">>

Digits == <<"0", "1", "2", "3", "4", "5", "6", "7", "8", "9">>

Ord(c) == CHOOSE i \in 1..Len(AsciiOrder) : AsciiOrder[i] = c

\* str.lower() on one character.
LowerChar(c) ==
  IF \E i \in 1..Len(Upper) : Upper[i] = c
    THEN LowerOf[CHOOSE i \in 1..Len(Upper) : Upper[i] = c]
    ELSE c

\* str.lower()
Lower(s) == [i \in 1..Len(s) |-> LowerChar(s[i])]

\* The characters str.strip() removes and the pattern \s matches.
IsSpace(c) == c \in {" ", "\t", "\n", "\r"}

\* s[a..b], empty when b < a.
Slice(s, a, b) == IF b < a THEN <<>> ELSE SubSeq(s, a, b)

\* str.strip()
Strip(s) ==
  LET keep == {i \in 1..Len(s) : ~IsSpace(s[i])}
  IN IF keep = {} THEN <<>>
     ELSE Slice(s, CHOOSE i \in keep : \A j \in keep : i <= j,
                   CHOOSE i \in keep : \A j \in keep : j <= i)

\* s < t in Python's order of str: lexicographic over code points.
StrLess(s, t) ==
  \E i \in 1..(Len(t)) :
    /\ \A j \in 1..(i - 1) : j <= Len(s) /\ s[j] = t[j]
    /\ \/ i = Len(s) + 1
       \/ i <= Len(s) /\ Ord(s[i]) < Ord(t[i])

\* str.split(sep) for a one-character separator: the pieces between the
\* separators, empty pieces included.
RECURSIVE SplitFrom(_, _, _)
SplitFrom(s, sep, a) ==
  LET hits == {i \in a..Len(s) : s[i] = sep}
  IN IF hits = {} THEN <<Slice(s, a, Len(s))>>
     ELSE LET k == CHOOSE i \in hits : \A j \in hits : i <= j
          IN <<Slice(s, a, k - 1)>> \o SplitFrom(s, sep, k + 1)

Split(s, sep) == SplitFrom(s, sep, 1)

\* str.splitlines(): as split on the line break, without the empty piece a
\* final line break (or the empty string) leaves.
SplitLines(s) ==
  LET ps == Split(s, "\n")
  IN IF ps[Len(ps)] = <<>> THEN Slice(ps, 1, Len(ps) - 1) ELSE ps

\* sep.join(xs)
RECURSIVE Join(_, _)
Join(xs, sep) ==
  IF xs = <<>> THEN <<>>
  ELSE IF Len(xs) = 1 THEN xs[1]
  ELSE xs[1] \o sep \o Join(Tail(xs), sep)

NonBlank(s) == Strip(s) # <<>>

\* [p.strip() for p in pieces if p.strip()]
RECURSIVE StripNonBlank(_)
StripNonBlank(pieces) ==
  IF pieces = <<>> THEN <<>>
  ELSE (IF NonBlank(pieces[1]) THEN <<Strip(pieces[1])>> ELSE <<>>)
         \o StripNonBlank(Tail(pieces))

----------------------------------------------------------------------------
(* parse_field, parse_any, split_csv_like.                                 *)

HeadingMark == <<"#", "#", "#", " ">>

NextHeading == <<"\n", "#", "#", "#", " ">>

NoResponse == <<"_", "N", "o", " ", "r", "e", "s", "p", "o", "n", "s", "e", "_">>

\* t occurs in s at position p.
HasPrefixAt(s, p, t) ==
  /\ p + Len(t) - 1 <= Len(s)
  /\ \A i \in 1..Len(t) : s[p + i - 1] = t[i]

\* ^ under re.MULTILINE.
LineStart(s, p) == p = 1 \/ s[p - 1] = "\n"

\* The position after the run of \s characters that starts at q.
SpaceEnd(s, q) ==
  LET stops == {i \in q..Len(s) : ~IsSpace(s[i])}
  IN IF stops = {} THEN Len(s) + 1
     ELSE CHOOSE i \in stops : \A j \in stops : i <= j

\* The line breaks the pattern's \n may consume in a match that starts at p:
\* those of the \s* run after the label that leave (.+?) a character.
MatchBreaks(s, p, label) ==
  LET q == p + Len(HeadingMark) + Len(label)
  IN IF LineStart(s, p) /\ HasPrefixAt(s, p, HeadingMark \o label)
       THEN {k \in q..(SpaceEnd(s, q) - 1) : s[k] = "\n" /\ k < Len(s)}
       ELSE {}

\* Group 1 of the match that starts at p: \s* is greedy, so \n is the last
\* line break available; (.+?) is lazy, so it ends at the first position
\* followed by "\n### " or by the end of the input.
MatchGroup(s, p, label) ==
  LET ks == MatchBreaks(s, p, label)
      k == CHOOSE i \in ks : \A j \in ks : j <= i
      ends == {e \in (k + 1)..Len(s) :
                 e = Len(s) \/ HasPrefixAt(s, e + 1, NextHeading)}
  IN Slice(s, k + 1, CHOOSE e \in ends : \A j \in ends : e <= j)

parse_field(body, label) ==
  LET starts == {p \in 1..Len(body) : MatchBreaks(body, p, label) # {}}
  IN IF starts = {} THEN <<>>
     ELSE LET p == CHOOSE i \in starts : \A j \in starts : i <= j
              val == Strip(MatchGroup(body, p, label))
          IN IF val = NoResponse THEN <<>> ELSE val

RECURSIVE parse_any(_, _)
parse_any(body, labels) ==
  IF labels = <<>> THEN <<>>
  ELSE LET v == parse_field(body, labels[1])
       IN IF Strip(v) # <<>> THEN v ELSE parse_any(body, Tail(labels))

\* Dedup with the items themselves as keys: the lower() of line 39 dropped.
RECURSIVE DedupExact(_, _)
DedupExact(parts, seen) ==
  IF parts = <<>> THEN <<>>
  ELSE IF parts[1] \in seen THEN DedupExact(Tail(parts), seen)
       ELSE <<parts[1]>> \o DedupExact(Tail(parts), seen \cup {parts[1]})

\* The loop of split_csv_like over the remaining parts: seen holds the
\* lower-cased keys already taken.
RECURSIVE Dedup(_, _)
Dedup(parts, seen) ==
  IF parts = <<>> THEN <<>>
  ELSE LET key == Lower(parts[1])
       IN IF key \in seen THEN Dedup(Tail(parts), seen)
          ELSE <<parts[1]>> \o Dedup(Tail(parts), seen \cup {key})

split_csv_like(s) == Dedup(StripNonBlank(Split(s, ",")), {})

----------------------------------------------------------------------------
(* The labels main() probes for each field, in the order it probes them.   *)

WordLabels ==
  <<<<"W", "o", "r", "d">>,
    <<"W", "o", "r", "d", " ", "(", "m", "u", "s", "t", " ", "m", "a", "t", "c", "h", " ", "e", "x", "i", "s", "t", "i", "n", "g", ")">>>>

PosLabels ==
  <<<<"P", "a", "r", "t", " ", "o", "f", " ", "s", "p", "e", "e", "c", "h">>,
    <<"P", "a", "r", "t", " ", "o", "f", " ", "S", "p", "e", "e", "c", "h">>>>

OtherLabels ==
  <<<<"O", "t", "h", "e", "r", " ", "s", "p", "e", "l", "l", "i", "n", "g", " ", "(", "U", "K", "/", "U", "S", " ", "i", "f", " ", "d", "i", "f", "f", "e", "r", "e", "n", "t", ")">>,
    <<"O", "t", "h", "e", "r", " ", "s", "p", "e", "l", "l", "i", "n", "g", " ", "(", "i", "f", " ", "d", "i", "f", "f", "e", "r", "e", "n", "t", ")">>,
    <<"O", "t", "h", "e", "r", " ", "s", "p", "e", "l", "l", "i", "n", "g">>>>

PronLabels ==
  <<<<"P", "r", "o", "n", "u", "n", "c", "i", "a", "t", "i", "o", "n", " ", "(", "I", "P", "A", " ", "e", "t", "c", ".", ")">>,
    <<"P", "r", "o", "n", "u", "n", "c", "i", "a", "t", "i", "o", "n">>>>

MeaningLabels ==
  <<<<"M", "e", "a", "n", "i", "n", "g", " ", "(", "J", "a", "p", "a", "n", "e", "s", "e", ")">>,
    <<"M", "e", "a", "n", "i", "n", "g", " ", "(", "J", "P", ")">>,
    <<"M", "e", "a", "n", "i", "n", "g">>>>

ExamplesLabels ==
  <<<<"E", "x", "a", "m", "p", "l", "e", "s", " ", "(", "o", "n", "e", " ", "p", "e", "r", " ", "l", "i", "n", "e", ")">>,
    <<"E", "x", "a", "m", "p", "l", "e", "s">>>>

SynLabels ==
  <<<<"S", "y", "n", "o", "n", "y", "m", "s", " ", "(", "c", "o", "m", "m", "a", "-", "s", "e", "p", "a", "r", "a", "t", "e", "d", ")">>,
    <<"S", "y", "n", "o", "n", "y", "m", "s">>>>

TagsLabels ==
  <<<<"T", "a", "g", "s", " ", "(", "c", "o", "m", "m", "a", "-", "s", "e", "p", "a", "r", "a", "t", "e", "d", ")">>,
    <<"T", "a", "g", "s">>>>

NotesLabels ==
  <<<<"N", "o", "t", "e", "s">>>>

LabelsOf(field) ==
  CASE field = "word" -> WordLabels
    [] field = "part_of_speech" -> PosLabels
    [] field = "other_spelling" -> OtherLabels
    [] field = "pronunciation" -> PronLabels
    [] field = "meaning_ja" -> MeaningLabels
    [] field = "examples" -> ExamplesLabels
    [] field = "synonyms" -> SynLabels
    [] field = "tags" -> TagsLabels
    [] field = "notes" -> NotesLabels

----------------------------------------------------------------------------
(* The submissions of the model: the environment main() reads.             *)

Cat == <<"C", "a", "t">>
cat == <<"c", "a", "t">>
CAT == <<"C", "A", "T">>
ant == <<"a", "n", "t">>
Bee == <<"B", "e", "e">>
noun == <<"n", "o", "u", "n">>
kat == <<"k", "a", "t">>
neko == <<"n", "e", "k", "o">>
inu == <<"i", "n", "u">>
ari == <<"a", "r", "i">>
pet == <<"p", "e", "t">>
IRun == <<"I", " ", "r", "u", "n", ".">>
HeRan == <<"H", "e", " ", "r", "a", "n", ".">>
TwoExamples == IRun \o <<"\n">> \o HeRan
RunJog == <<"R", "u", "n", ",", " ", "j", "o", "g", ",", " ", "r", "u", "n", ",", " ", "J", "o", "g">>
TagsAB == <<"a", ",", " ", "b">>
TagC == <<"c">>
OnlyComma == <<",">>

\* One section of an issue form: the heading of a field, under the alias-th
\* label of that field, and the text under it (empty: a blank section).
Sec(field, alias, text) == [field |-> field, alias |-> alias, text |-> text]

\* The issue forms submitted: each a sequence of sections.
Forms ==
  << <<Sec("word", 1, Cat), Sec("part_of_speech", 1, noun),
       Sec("other_spelling", 1, NoResponse), Sec("pronunciation", 1, kat),
       Sec("meaning_ja", 1, neko), Sec("examples", 1, TwoExamples),
       Sec("synonyms", 1, RunJog), Sec("tags", 1, TagsAB),
       Sec("notes", 1, pet)>>,
     <<Sec("word", 2, cat), Sec("tags", 2, TagC)>>,
     <<Sec("word", 1, cat), Sec("meaning_ja", 1, NoResponse),
       Sec("synonyms", 2, OnlyComma), Sec("tags", 1, NoResponse)>>,
     <<Sec("word", 1, ant), Sec("meaning_ja", 3, ari)>>,
     <<Sec("meaning_ja", 1, neko)>>,
     <<Sec("word", 1, NoResponse), Sec("meaning_ja", 1, neko)>>,
     <<Sec("meaning_ja", 1, neko), Sec("word", 1, <<>>)>>,
     <<Sec("word", 1, <<>>), Sec("meaning_ja", 1, neko)>>,
     <<Sec("word", 1, Bee), Sec("part_of_speech", 2, noun)>>,
     <<Sec("word", 1, CAT), Sec("meaning_ja", 2, inu),
       Sec("examples", 2, NoResponse), Sec("notes", 1, NoResponse)>>,
     <<Sec("word", 1, ant), Sec("other_spelling", 3, Bee),
       Sec("pronunciation", 2, kat), Sec("examples", 2, IRun),
       Sec("notes", 1, pet)>> >>

\* ISSUE_BODY as GitHub renders an issue form: each section is its heading,
\* an empty line and its text, and an empty line separates the sections.
RECURSIVE Render(_)
Render(form) ==
  IF form = <<>> THEN <<>>
  ELSE LET s == form[1]
           one == HeadingMark \o LabelsOf(s.field)[s.alias]
                    \o <<"\n", "\n">> \o s.text
       IN IF Len(form) = 1 THEN one
          ELSE one \o <<"\n", "\n">> \o Render(Tail(form))

Url8 == <<"u", "/", "8">>

\* ISSUE_URL and ISSUE_NUMBER of a run: the URL may be unset.
Envs ==
  { [url |-> <<>>, number |-> <<"7">>],
    [url |-> Url8, number |-> <<"8">>] }

----------------------------------------------------------------------------
(* main().                                                                 *)

\* [l.strip() for l in raw.splitlines() if l.strip()] if raw.strip() else []
ExamplesOf(raw) ==
  IF Strip(raw) # <<>> THEN StripNonBlank(SplitLines(raw)) ELSE <<>>

\* split_csv_like(raw) if raw.strip() else []
CsvListOf(raw) == IF Strip(raw) # <<>> THEN split_csv_like(raw) ELSE <<>>

\* The fields main() reads from the body, up to the parsing of the lists.
Fields(body) ==
  LET examples_raw == parse_any(body, ExamplesLabels)
      syn_raw == parse_any(body, SynLabels)
      tags_raw == parse_any(body, TagsLabels)
  IN [ word |-> Strip(parse_any(body, WordLabels)),
       pos |-> Strip(parse_any(body, PosLabels)),
       other |-> Strip(parse_any(body, OtherLabels)),
       pron |-> Strip(parse_any(body, PronLabels)),
       meaning |-> Strip(parse_any(body, MeaningLabels)),
       examples_raw |-> examples_raw,
       syn_raw |-> syn_raw,
       tags_raw |-> tags_raw,
       notes |-> Strip(parse_any(body, NotesLabels)),
       examples |-> ExamplesOf(examples_raw),
       synonyms |-> CsvListOf(syn_raw),
       tags |-> CsvListOf(tags_raw) ]

\* What main() reads from each form of the model.
Incoming == [i \in 1..Len(Forms) |-> Fields(Render(Forms[i]))]

\* data/words.json: a missing file loads as the empty collection.  The file
\* holds what json.dump was given; json.load returns it.
load_json == IF json.exists THEN json.items ELSE <<>>

save_json(items) == [exists |-> TRUE, items |-> items]

fieldnames ==
  <<"word", "part_of_speech", "other_spelling", "pronunciation", "meaning_ja", "examples", "synonyms", "tags", "notes", "mastery", "last_reviewed", "created_at", "source_issue">>

\* The separator as a comma: the cells of the export joined as the input was.
SepComma == <<",", " ">>

SepBar == <<" ", "|", " ">>

\* str() of a small int, as csv writes it.
Str(n) == <<Digits[n + 1]>>

\* The row save_csv writes for one entry.
CsvRow(it) ==
  [ word |-> it.word,
    part_of_speech |-> it.part_of_speech,
    other_spelling |-> it.other_spelling,
    pronunciation |-> it.pronunciation,
    meaning_ja |-> it.meaning_ja,
    examples |-> Join(it.examples, SepBar),
    synonyms |-> Join(it.synonyms, SepBar),
    tags |-> Join(it.tags, SepBar),
    notes |-> it.notes,
    mastery |-> Str(it.mastery),
    last_reviewed |-> it.last_reviewed,
    created_at |-> it.created_at,
    source_issue |-> it.source_issue ]

\* data/words.csv: the header and one row per item.
save_csv(items) ==
  [ exists |-> TRUE,
    header |-> fieldnames,
    rows |-> [i \in 1..Len(items) |-> CsvRow(items[i])] ]

\* find_index comparing the words as they are: the lower() of lines 84 and 86
\* dropped.
find_index_exact(items, word) ==
  LET key == Strip(word)
      hits == {i \in 1..Len(items) : Strip(items[i].word) = key}
  IN IF hits = {} THEN -1
     ELSE CHOOSE i \in hits : \A j \in hits : i <= j

\* The index of the first item whose word matches, from 1; -1 when none does.
find_index(items, word) ==
  LET key == Lower(Strip(word))
      hits == {i \in 1..Len(items) : Lower(Strip(items[i].word)) = key}
  IN IF hits = {} THEN -1
     ELSE CHOOSE i \in hits : \A j \in hits : i <= j

\* The sort key without lower(): the order of the code points.
SortKeyRaw(it) == it.word

\* x.get("word","").lower()
SortKey(it) == Lower(it.word)

\* list.sort(key=...) is stable: an item goes after the items whose key is
\* not greater than its own.
RECURSIVE SortItems(_)
SortItems(items) ==
  IF items = <<>> THEN <<>>
  ELSE LET n == Len(items)
           x == items[n]
           done == SortItems(Slice(items, 1, n - 1))
           before == {i \in 1..Len(done) : ~StrLess(SortKey(x), SortKey(done[i]))}
           k == Cardinality(before)
       IN Slice(done, 1, k) \o <<x>> \o Slice(done, k + 1, Len(done))

\* datetime.now(timezone.utc).isoformat() at the n-th tick of the clock.
Iso(n) == <<"T", Digits[n + 1]>>

Hash == <<"#">>

\* ISSUE_URL or f"#{ISSUE_NUMBER}"
Source(env) == IF env.url # <<>> THEN env.url ELSE Hash \o env.number

\* The entry main() appends for a new word.
NewEntry(in, now_iso, source) ==
  [ word |-> in.word,
    part_of_speech |-> in.pos,
    other_spelling |-> in.other,
    pronunciation |-> in.pron,
    meaning_ja |-> in.meaning,
    examples |-> in.examples,
    synonyms |-> in.synonyms,
    tags |-> in.tags,
    notes |-> in.notes,
    mastery |-> 0,
    last_reviewed |-> <<>>,
    created_at |-> now_iso,
    source_issue |-> source ]

\* UpdatedEntry with part_of_speech assigned whatever came in: the test of
\* line 178 dropped.
UpdatedEntryOverwrite(it, in, now_iso, source) ==
  [ it EXCEPT
      !.word = in.word,
      !.part_of_speech = in.pos,
      !.other_spelling = IF in.other # <<>> THEN in.other ELSE @,
      !.pronunciation = IF in.pron # <<>> THEN in.pron ELSE @,
      !.meaning_ja = IF in.meaning # <<>> THEN in.meaning ELSE @,
      !.examples = IF Strip(in.examples_raw) # <<>> THEN in.examples ELSE @,
      !.synonyms = IF Strip(in.syn_raw) # <<>> THEN in.synonyms ELSE @,
      !.tags = IF Strip(in.tags_raw) # <<>> THEN in.tags ELSE @,
      !.notes = IF in.notes # <<>> THEN in.notes ELSE @,
      !.created_at = IF @ # <<>> THEN @ ELSE now_iso,
      !.source_issue = source ]

\* UpdatedEntry with created_at stamped again: line 198 without its `or`.
UpdatedEntryRestamp(it, in, now_iso, source) ==
  [ it EXCEPT
      !.word = in.word,
      !.part_of_speech = IF in.pos # <<>> THEN in.pos ELSE @,
      !.other_spelling = IF in.other # <<>> THEN in.other ELSE @,
      !.pronunciation = IF in.pron # <<>> THEN in.pron ELSE @,
      !.meaning_ja = IF in.meaning # <<>> THEN in.meaning ELSE @,
      !.examples = IF Strip(in.examples_raw) # <<>> THEN in.examples ELSE @,
      !.synonyms = IF Strip(in.syn_raw) # <<>> THEN in.synonyms ELSE @,
      !.tags = IF Strip(in.tags_raw) # <<>> THEN in.tags ELSE @,
      !.notes = IF in.notes # <<>> THEN in.notes ELSE @,
      !.created_at = now_iso,
      !.source_issue = source ]

\* UpdatedEntry that keeps the stored word: line 176 dropped.
UpdatedEntryKeepWord(it, in, now_iso, source) ==
  [ it EXCEPT
      !.part_of_speech = IF in.pos # <<>> THEN in.pos ELSE @,
      !.other_spelling = IF in.other # <<>> THEN in.other ELSE @,
      !.pronunciation = IF in.pron # <<>> THEN in.pron ELSE @,
      !.meaning_ja = IF in.meaning # <<>> THEN in.meaning ELSE @,
      !.examples = IF Strip(in.examples_raw) # <<>> THEN in.examples ELSE @,
      !.synonyms = IF Strip(in.syn_raw) # <<>> THEN in.synonyms ELSE @,
      !.tags = IF Strip(in.tags_raw) # <<>> THEN in.tags ELSE @,
      !.notes = IF in.notes # <<>> THEN in.notes ELSE @,
      !.created_at = IF @ # <<>> THEN @ ELSE now_iso,
      !.source_issue = source ]

\* The entry main() leaves in place of the matched one.
UpdatedEntry(it, in, now_iso, source) ==
  [ it EXCEPT
      !.word = in.word,
      !.part_of_speech = IF in.pos # <<>> THEN in.pos ELSE @,
      !.other_spelling = IF in.other # <<>> THEN in.other ELSE @,
      !.pronunciation = IF in.pron # <<>> THEN in.pron ELSE @,
      !.meaning_ja = IF in.meaning # <<>> THEN in.meaning ELSE @,
      !.examples = IF Strip(in.examples_raw) # <<>> THEN in.examples ELSE @,
      !.synonyms = IF Strip(in.syn_raw) # <<>> THEN in.synonyms ELSE @,
      !.tags = IF Strip(in.tags_raw) # <<>> THEN in.tags ELSE @,
      !.notes = IF in.notes # <<>> THEN in.notes ELSE @,
      !.created_at = IF @ # <<>> THEN @ ELSE now_iso,
      !.source_issue = source ]

WordMissing == "Word is required but missing."

MeaningMissing == "Meaning (Japanese) is required for a new word."

\* What a run leaves in `last`: the submission, what it printed (out), the
\* message it exited with (err), and the two files as it found them.
Report(f, env, out, err) ==
  [ form |-> f, env |-> env, out |-> out, err |-> err,
    json |-> json, csv |-> csv ]

\* Lines 204-207: sort, write both files, print the status.
Store(f, env, items, status) ==
  /\ json' = save_json(items)
  /\ csv' = save_csv(items)
  /\ last' = Report(f, env, status, "")

\* Lines 150-207, with idx the result of find_index.
Upsert(f, env, in, items, idx, now_iso, source) ==
  IF idx = -1
    THEN IF in.meaning = <<>>
           THEN /\ last' = Report(f, env, "", MeaningMissing)
                /\ UNCHANGED <<json, csv>>
           ELSE Store(f, env,
                      SortItems(Append(items, NewEntry(in, now_iso, source))),
                      "added")
    ELSE Store(f, env,
               SortItems([items EXCEPT
                  ![idx] = UpdatedEntry(items[idx], in, now_iso, source)]),
               "updated")

\* Lines 144-207, with items the collection load_json returned.
Merge(f, env, in, items) ==
  Upsert(f, env, in, items, find_index(items, in.word), Iso(now), Source(env))

\* Lines 92-207, with `in` the fields read from the body.
Ingest(f, env, in) ==
  IF in.word = <<>>
    THEN /\ last' = Report(f, env, "", WordMissing)
         /\ UNCHANGED <<json, csv>>
    ELSE Merge(f, env, in, load_json)

\* One run of main() on form f of Forms under env.  The clock ticks with
\* every run; MaxRuns bounds the runs of a behaviour.
main(f, env) ==
  /\ now <= MaxRuns
  /\ now' = now + 1
  /\ prev' = last
  /\ UNCHANGED <<arg, ret>>
  /\ Ingest(f, env, Incoming[f])

NoEnv == [url |-> <<>>, number |-> <<>>]

\* No run yet, and the store not yet written.
InitFiles ==
  /\ json = [exists |-> FALSE, items |-> <<>>]
  /\ csv = [exists |-> FALSE, header |-> <<>>, rows |-> <<>>]
  /\ now = 1
  /\ last = [form |-> 0, env |-> NoEnv, out |-> "", err |-> "",
             json |-> json, csv |-> csv]
  /\ prev = last

NoCall == [fn |-> "", text |-> <<>>, label |-> <<>>]

NoRet == [done |-> FALSE, val |-> <<>>]

Init == InitFiles /\ arg = NoCall /\ ret = NoRet

Next == \E f \in 1..Len(Forms), env \in Envs : main(f, env)

Spec == Init /\ [][Next]_vars

----------------------------------------------------------------------------
(* main() on a store that was edited by hand: any order, repeated words,   *)
(* entries without created_at.                                             *)

LegacyCat ==
  [ word |-> Cat, part_of_speech |-> noun, other_spelling |-> <<>>,
    pronunciation |-> <<>>, meaning_ja |-> neko, examples |-> <<IRun>>,
    synonyms |-> <<>>, tags |-> <<TagC>>, notes |-> <<>>, mastery |-> 3,
    last_reviewed |-> Iso(0), created_at |-> <<>>,
    source_issue |-> Hash \o <<"1">> ]

LegacyAnt ==
  [ word |-> ant, part_of_speech |-> <<>>, other_spelling |-> <<>>,
    pronunciation |-> <<>>, meaning_ja |-> ari, examples |-> <<>>,
    synonyms |-> <<>>, tags |-> <<>>, notes |-> pet, mastery |-> 0,
    last_reviewed |-> <<>>, created_at |-> Iso(0),
    source_issue |-> Hash \o <<"2">> ]

\* The tuples over S of length at most n.
RECURSIVE SeqsUpTo(_, _)
SeqsUpTo(S, n) ==
  IF n = 0 THEN {<<>>}
  ELSE LET shorter == SeqsUpTo(S, n - 1)
       IN shorter \cup {Append(q, x) : q \in shorter, x \in S}

LegacyStores == SeqsUpTo({LegacyCat, LegacyAnt}, MaxLegacy)

InitLegacy ==
  /\ json \in {[exists |-> TRUE, items |-> st] : st \in LegacyStores}
  /\ csv = [exists |-> FALSE, header |-> <<>>, rows |-> <<>>]
  /\ now = 1
  /\ last = [form |-> 0, env |-> NoEnv, out |-> "", err |-> "",
             json |-> json, csv |-> csv]
  /\ prev = last
  /\ arg = NoCall
  /\ ret = NoRet

SpecLegacy == InitLegacy /\ [][Next]_vars

----------------------------------------------------------------------------
(* parse_field on its own, on every body of a few lines.                   *)

HeadA == HeadingMark \o <<"A">>

HeadB == HeadingMark \o <<"B">>

\* The lines the bodies are made of: two headings, one of them again with a
\* trailing blank, text, the empty line and the placeholder.
BodyLines ==
  { HeadA, HeadB, HeadA \o <<" ">>, <<"x">>, <<"y", " ">>, <<>>, NoResponse }

Bodies == {Join(ls, <<"\n">>) : ls \in SeqsUpTo(BodyLines, MaxLines)}

InitParse ==
  /\ InitFiles
  /\ arg \in {[fn |-> "parse_field", text |-> b, label |-> l] :
                b \in Bodies, l \in {<<"A">>, <<"B">>}}
  /\ ret = NoRet

CallParseField ==
  /\ arg.fn = "parse_field"
  /\ ~ret.done
  /\ ret' = [done |-> TRUE, val |-> parse_field(arg.text, arg.label)]
  /\ UNCHANGED <<json, csv, now, last, prev, arg>>

SpecParse == InitParse /\ [][CallParseField]_vars

----------------------------------------------------------------------------
(* split_csv_like on its own, on every short string.                       *)

CsvChars == {"a", "A", "b", ",", " "}

CsvTexts == SeqsUpTo(CsvChars, MaxLen) \cup {RunJog}

InitSplit ==
  /\ InitFiles
  /\ arg \in {[fn |-> "split_csv_like", text |-> t, label |-> <<>>] :
                t \in CsvTexts}
  /\ ret = NoRet

CallSplitCsvLike ==
  /\ arg.fn = "split_csv_like"
  /\ ~ret.done
  /\ ret' = [done |-> TRUE, val |-> split_csv_like(arg.text)]
  /\ UNCHANGED <<json, csv, now, last, prev, arg>>

SpecSplit == InitSplit /\ [][CallSplitCsvLike]_vars

----------------------------------------------------------------------------
(* What the properties below speak of.                                     *)

\* A run of main() has ended.
Ran == last.form # 0

\* The form of the last run, and the fields main() read from it.
TheForm == Forms[last.form]

In == Incoming[last.form]

\* The collection the last run loaded, and the one now stored.
Before == IF last.json.exists THEN last.json.items ELSE <<>>

After == json.items

Range(q) == {q[i] : i \in DOMAIN q}

\* The form leaves the field out: no section of it, or the placeholder.
Omitted(field) ==
  \A i \in DOMAIN TheForm :
    TheForm[i].field = field => TheForm[i].text = NoResponse

\* The form has a section of the field that holds blanks only.
Blank(field) ==
  \E i \in DOMAIN TheForm :
    TheForm[i].field = field /\ Strip(TheForm[i].text) = <<>>

\* e is an entry for word w: the same word but for case and outer blanks.
SameWord(e, w) == Lower(Strip(e.word)) = Lower(Strip(w))

\* The entry of the incoming word before and after the last run.
Old == CHOOSE e \in Range(Before) : SameWord(e, In.word)

New == CHOOSE e \in Range(After) : SameWord(e, In.word)

Unwritten == json = last.json /\ csv = last.csv

Scalars ==
  {"part_of_speech", "other_spelling", "pronunciation", "meaning_ja", "notes"}

Lists == {"examples", "synonyms", "tags"}

\* The incoming text of a scalar field, and the incoming raw text of a list.
InText(k) ==
  CASE k = "part_of_speech" -> In.pos
    [] k = "other_spelling" -> In.other
    [] k = "pronunciation" -> In.pron
    [] k = "meaning_ja" -> In.meaning
    [] k = "notes" -> In.notes
    [] k = "examples" -> In.examples_raw
    [] k = "synonyms" -> In.syn_raw
    [] k = "tags" -> In.tags_raw

----------------------------------------------------------------------------
(* C1 *)

\* C1: a run that ends in a fatal error leaves both files as it found them;
\* a run whose Word field is absent, the placeholder or blank ends so, and so
\* does a run whose word matches no stored entry and whose Meaning is empty.
C1_FatalRunsWriteNothing ==
  Ran =>
    /\ last.err # "" => Unwritten
    /\ (Omitted("word") \/ Blank("word")) => last.err # "" /\ Unwritten
    /\ ((\A e \in Range(Before) : ~SameWord(e, In.word)) /\ In.meaning = <<>>)
         => last.err # "" /\ Unwritten

\* The part of C1 that holds of every run: nothing is written by a run that
\* ends in a fatal error, and a run whose Word field is absent or the
\* placeholder, or whose new word has no Meaning, ends in one.
FatalRunsAreUnwritten ==
  Ran =>
    /\ last.err # "" => Unwritten
    /\ Omitted("word") => last.err = WordMissing
    /\ ((\A e \in Range(Before) : ~SameWord(e, In.word)) /\ In.meaning = <<>>)
         => last.err # ""

----------------------------------------------------------------------------
(* C2 *)

\* C2: an update leaves every field of the matched entry whose incoming value
\* is empty as it was (scalars when the incoming text is empty, lists when the
\* raw text is empty, both when the form leaves the field out), and never
\* changes mastery, last_reviewed or a created_at that is set.
C2_UpdateKeepsOmittedFields ==
  last.out = "updated" =>
    /\ \A k \in Scalars \cup Lists :
         (Omitted(k) \/ InText(k) = <<>>) => New[k] = Old[k]
    /\ New.mastery = Old.mastery
    /\ New.last_reviewed = Old.last_reviewed
    /\ Old.created_at # <<>> => New.created_at = Old.created_at

\* An update whose form leaves Tags and Meaning out, of an entry that has both.
C2_Witness ==
  /\ last.out = "updated"
  /\ Omitted("tags") /\ Old.tags = <<<<"a">>, <<"b">>>> /\ New.tags = Old.tags
  /\ Omitted("meaning_ja") /\ Old.meaning_ja = neko /\ New.meaning_ja = neko
  /\ Omitted("part_of_speech") /\ New.part_of_speech = noun

----------------------------------------------------------------------------
(* C3 *)

\* C3: from an empty or missing store, after any runs, no two stored entries
\* have the same word up to case and outer blanks.
C3_OneEntryPerWord ==
  \A i, j \in DOMAIN After :
    i # j => Lower(Strip(After[i].word)) # Lower(Strip(After[j].word))

\* A word submitted again in another casing: still one entry.
C3_Witness ==
  /\ last.out = "updated"
  /\ Old.word # In.word
  /\ Len(After) = Len(Before)
  /\ Cardinality({e \in Range(After) : SameWord(e, In.word)}) = 1

----------------------------------------------------------------------------
(* C4 *)

\* C4: after a successful run the stored words are in non-decreasing order of
\* their lower-cased text, whatever the order of the collection loaded.
C4_StoredSorted ==
  (Ran /\ last.err = "") =>
    \A i, j \in DOMAIN After :
      i < j => ~StrLess(Lower(After[j].word), Lower(After[i].word))

\* A successful run on a store that was loaded out of order.
C4_Witness ==
  /\ Ran /\ last.err = ""
  /\ Before = <<LegacyCat, LegacyAnt>>
  /\ After[1].word = ant

----------------------------------------------------------------------------
(* C5 *)

----------------------------------------------------------------------------
(* C6 *)

\* C6: a successful run reports "added" exactly when no stored word equals the
\* incoming word case-insensitively, and then the collection has one entry
\* more; otherwise it reports "updated", the collection keeps its size and
\* its other entries, and the matched entry's word is the incoming word.
C6_AddedOrUpdated ==
  (Ran /\ last.err = "") =>
    /\ last.out \in {"added", "updated"}
    /\ last.out = "added" <=>
         \A e \in Range(Before) : Lower(e.word) # Lower(In.word)
    /\ last.out = "added" =>
         /\ Len(After) = Len(Before) + 1
         /\ Range(Before) \subseteq Range(After)
    /\ last.out = "updated" =>
         /\ Len(After) = Len(Before)
         /\ \A e \in Range(Before) :
              ~SameWord(e, In.word) => e \in Range(After)
         /\ New.word = In.word

\* "Cat" added, then "cat" submitted: one entry, whose word is "cat".
C6_Witness ==
  /\ prev.out = "added" /\ last.out = "updated"
  /\ Before[1].word = Cat
  /\ In.word = cat
  /\ Len(After) = 1 /\ After[1].word = cat

----------------------------------------------------------------------------
(* C7 *)

\* The lines of a text, a final empty one included.
LinesOf(text) == Split(text, "\n")

\* A heading line: it starts with "### ".
IsHeading(line) == HasPrefixAt(line, 1, HeadingMark)

\* The heading line of the label: "### <label>", blanks after it allowed.
IsHeadingOf(line, label) ==
  /\ HasPrefixAt(line, 1, HeadingMark \o label)
  /\ Strip(Slice(line, Len(HeadingMark) + Len(label) + 1, Len(line))) = <<>>

\* The section of the label: the lines after its first heading line, up to the
\* next heading line or the end; trimmed; the placeholder read as empty.
SectionOf(text, label) ==
  LET ls == LinesOf(text)
      heads == {i \in 1..Len(ls) : IsHeadingOf(ls[i], label)}
  IN IF heads = {} THEN <<>>
     ELSE LET h == CHOOSE i \in heads : \A j \in heads : i <= j
              nexts == {i \in (h + 1)..Len(ls) : IsHeading(ls[i])}
              stop == IF nexts = {} THEN Len(ls) + 1
                      ELSE CHOOSE i \in nexts : \A j \in nexts : i <= j
              val == Strip(Join(Slice(ls, h + 1, stop - 1), <<"\n">>))
          IN IF val = NoResponse THEN <<>> ELSE val

\* C7: parse_field(label) is the trimmed text between the heading line of the
\* label and the next heading line or the end of the input; it holds no
\* heading line; it is empty when the heading is absent, when the section is
\* blank and when the section is the placeholder.
C7_ParseFieldIsTheSection ==
  (ret.done /\ arg.fn = "parse_field") =>
    /\ ret.val = SectionOf(arg.text, arg.label)
    /\ \A i \in DOMAIN LinesOf(ret.val) : ~IsHeading(LinesOf(ret.val)[i])

\* The heading line right after the heading of the label, or after blank
\* lines only: the one shape of body in which parse_field is not the section.
HeadingFollows(text, label) ==
  LET ls == LinesOf(text)
      heads == {i \in 1..Len(ls) : IsHeadingOf(ls[i], label)}
      h == CHOOSE i \in heads : \A j \in heads : i <= j
  IN /\ heads # {}
     /\ \E j \in (h + 1)..Len(ls) :
          /\ IsHeading(ls[j])
          /\ \A i \in (h + 1)..(j - 1) : Strip(ls[i]) = <<>>

\* parse_field is the section of the label in every other body.
ParseFieldElsewhere ==
  (ret.done /\ arg.fn = "parse_field"
     /\ ~HeadingFollows(arg.text, arg.label)) =>
    ret.val = SectionOf(arg.text, arg.label)

----------------------------------------------------------------------------
(* C8 *)

\* The elements of xs in order with " | " between them.
RECURSIVE Barred(_)
Barred(xs) ==
  IF Len(xs) = 0 THEN <<>>
  ELSE IF Len(xs) = 1 THEN xs[1]
  ELSE Barred(Slice(xs, 1, Len(xs) - 1)) \o <<" ", "|", " ">> \o xs[Len(xs)]

IRunHeRan ==
  <<"I", " ", "r", "u", "n", ".", " ", "|", " ", "H", "e", " ", "r", "a", "n", ".">>

\* C8: the export holds, after its header, one row per stored entry, in the
\* same order, each scalar cell the entry's field and each list cell the
\* list's elements joined with " | ".
C8_SinksAgree ==
  (json.exists \/ csv.exists) =>
    /\ json.exists /\ csv.exists
    /\ csv.header = fieldnames
    /\ Len(csv.rows) = Len(After)
    /\ \A i \in DOMAIN After :
         /\ \A k \in Scalars \cup {"word", "last_reviewed", "created_at",
                                   "source_issue"} :
              csv.rows[i][k] = After[i][k]
         /\ \A k \in Lists : csv.rows[i][k] = Barred(After[i][k])
         /\ After[i].mastery = 0 /\ csv.rows[i].mastery = <<"0">>
         /\ After[i].examples = <<IRun, HeRan>>
              => csv.rows[i].examples = IRunHeRan

\* Two entries stored in order, one of them with two examples.
C8_Witness ==
  /\ Ran /\ last.err = ""
  /\ Len(After) = 2 /\ Len(csv.rows) = 2
  /\ \E i \in DOMAIN After :
       /\ After[i].examples = <<IRun, HeRan>>
       /\ csv.rows[i].examples = IRunHeRan
       /\ csv.rows[i].tags = <<"a", " ", "|", " ", "b">>

----------------------------------------------------------------------------
(* C9 *)

\* The pieces of a text between its commas, read character by character.
RECURSIVE PiecesFrom(_, _, _)
PiecesFrom(text, i, piece) ==
  IF i > Len(text) THEN <<piece>>
  ELSE IF text[i] = "," THEN <<piece>> \o PiecesFrom(text, i + 1, <<>>)
  ELSE PiecesFrom(text, i + 1, Append(piece, text[i]))

\* The items of a comma-separated text: its pieces trimmed, the empty dropped.
ItemsOf(text) ==
  LET ps == PiecesFrom(text, 1, <<>>)
      trimmed == [i \in DOMAIN ps |-> Strip(ps[i])]
  IN SelectSeq(trimmed, LAMBDA x : x # <<>>)

\* The first place of an item, up to case, among the items.
FirstPlace(items, x) ==
  CHOOSE n \in DOMAIN items :
    /\ Lower(items[n]) = Lower(x)
    /\ \A m \in DOMAIN items : Lower(items[m]) = Lower(x) => n <= m

\* C9: split_csv_like returns the items of its input without the duplicates
\* up to case: no two results are equal lower-cased, every item appears
\* exactly once, in the casing of its first occurrence, and the results are in
\* the order of the first occurrences.
C9_SplitCsvLike ==
  (ret.done /\ arg.fn = "split_csv_like") =>
    LET r == ret.val
        items == ItemsOf(arg.text)
    IN /\ \A i, j \in DOMAIN r : i # j => Lower(r[i]) # Lower(r[j])
       /\ \A n \in DOMAIN items :
            /\ Cardinality({j \in DOMAIN r : Lower(r[j]) = Lower(items[n])}) = 1
            /\ \E j \in DOMAIN r : r[j] = items[FirstPlace(items, items[n])]
       /\ \A j \in DOMAIN r :
            /\ \E n \in DOMAIN items : items[n] = r[j]
            /\ r[j] = items[FirstPlace(items, r[j])]
       /\ \A i, j \in DOMAIN r :
            i < j => FirstPlace(items, r[i]) < FirstPlace(items, r[j])
       /\ arg.text = RunJog => r = << <<"R", "u", "n">>, <<"j", "o", "g">> >>

\* "Run, jog, run, Jog" split.
C9_Witness ==
  /\ ret.done /\ arg.fn = "split_csv_like"
  /\ arg.text = RunJog
  /\ ret.val = << <<"R", "u", "n">>, <<"j", "o", "g">> >>

----------------------------------------------------------------------------
(* C10 *)

\* C10: a list field whose raw text is not empty never parses to the empty
\* list, so an update never replaces a non-empty examples, synonyms or tags
\* by the empty list.
C10_ListsAreNeverEmptied ==
  last.out = "updated" =>
    /\ Strip(In.examples_raw) # <<>> => In.examples # <<>>
    /\ Strip(In.syn_raw) # <<>> => In.synonyms # <<>>
    /\ Strip(In.tags_raw) # <<>> => In.tags # <<>>
    /\ \A k \in Lists : Old[k] # <<>> => New[k] # <<>>

\* The part of C10 that holds: the examples, split by lines, are never empty
\* when their raw text is not, and an update never empties them.
ExamplesAreNeverEmptied ==
  /\ Ran => (Strip(In.examples_raw) # <<>> => In.examples # <<>>)
  /\ last.out = "updated" => (Old.examples # <<>> => New.examples # <<>>)

====
